---- MODULE Spec2Model ----
(***************************************************************************)
(* Model of LEBscripts' createMovieInfo.py and lib/readLocalisations.py:   *)
(* the readers of localisation files, the frame index generator, the      *)
(* bucketing of rows by frame (convert) and the construction of the       *)
(* u-track movieInfo array (createUtrackMatlabLocalisationFile).          *)
(*                                                                         *)
(* Numbers: the source works on float64.  Input values are drawn from     *)
(* multiples of every pixel size in use so that the divisions of the      *)
(* source are exact on integers.  NaN is a value of its own.              *)
(***************************************************************************)
EXTENDS Integers, Sequences, FiniteSets, TLC

\* ------------------------------------------------------------------ bounds
\* most data rows in an input file / most elements fed to the index generator
MaxRows == 3
\* largest frame number in an input
MaxFrame == 2

\* np.NaN, the fill value of the extra column (readLocalisations.py:116)
NaN == -1

\* argparse leaves an option that was not given as None
None == "None"

Frames == 0..MaxFrame
XVals == {4, 8}

\* ------------------------------------------------------------ list helpers
\* list.index(name) (1-based here); 0 stands for the ValueError of a miss
Index(seq, name) ==
    IF \E i \in 1..Len(seq) : seq[i] = name
    THEN CHOOSE i \in 1..Len(seq) : seq[i] = name /\ \A j \in 1..(i-1) : seq[j] # name
    ELSE 0

Has(seq, name) == \E i \in 1..Len(seq) : seq[i] = name

\* element-wise true division of the source, exact on the values in use;
\* NaN stays NaN
Div(a, p) == IF a = NaN THEN NaN ELSE a \div p

\* the column k of a 2-d array
Column(rows, k) == [i \in 1..Len(rows) |-> rows[i][k]]

\* -------------------------------------------------------- indexGenerator
\* indexGenerator.__init__
indexGeneratorInit == [currentFrame |-> 0, previousFrame |-> 0, idx |-> -1]

\* a plausible slip: the counter of a new frame starts at 1
indexCallFromOne(g, frame) ==
    IF frame = g.currentFrame
    THEN [g EXCEPT !.idx = g.idx + 1]
    ELSE [currentFrame |-> frame, previousFrame |-> g.currentFrame, idx |-> 1]

\* indexGenerator.__call__: the state after the call; the value returned is
\* the new idx
indexCall(g, frame) ==
    IF frame = g.currentFrame
    THEN [g EXCEPT !.idx = g.idx + 1]
    ELSE [currentFrame |-> frame, previousFrame |-> g.currentFrame, idx |-> 0]

\* the generator after the calls idx(f) for f in fs, in order
RECURSIVE GenAfter(_)
GenAfter(fs) ==
    IF fs = <<>> THEN indexGeneratorInit
    ELSE indexCall(GenAfter(SubSeq(fs, 1, Len(fs) - 1)), fs[Len(fs)])

\* 'frame_' + str(int(frame))
FrameLabel(frame) == <<"frame_", frame>>

\* generateIndex: [level1, level2]
generateIndex(fs) ==
    [level1 |-> [i \in 1..Len(fs) |-> FrameLabel(fs[i])],
     level2 |-> [i \in 1..Len(fs) |-> GenAfter(SubSeq(fs, 1, i)).idx]]

\* ------------------------------------------------------------ input files
\* An input file: fmt "tab" is a tab-separated header line of column names,
\* fmt "xml" is rapidSTORM's "# <localizations>" line whose children declare
\* the field identifiers, in column order; rows is the numeric body.
XYTHeaders ==
    { <<"x", "y", "frame">>,
      <<"frame", "x", "y">>,
      <<"x", "y">> }

ThunderstormHeaders ==
    { <<"x", "y", "frame", "uncertainty", "intensity [photon]">>,
      <<"x", "y", "frame", "uncertainty">>,
      <<"x", "y", "frame", "intensity [photon]">>,
      <<"x", "y", "frame">> }

RapidStormHeaders ==
    { <<"Position-0-0", "Position-0-0-uncertainty", "Position-1-0",
        "Position-1-0-uncertainty", "Amplitude-0-0", "ImageNumber-0-0",
        "PSFWidth-0-0", "PSFWidth-1-0", "FitResidues-0-0", "LocalBackground-0-0">>,
      <<"Position-0-0", "Position-1-0", "Amplitude-0-0", "ImageNumber-0-0",
        "FitResidues-0-0", "LocalBackground-0-0">>,
      <<"ImageNumber-0-0", "Position-0-0", "Position-0-0-uncertainty", "Position-1-0",
        "Position-1-0-uncertainty", "Amplitude-0-0", "LocalBackground-0-0">>,
      <<"Position-0-0", "Position-1-0", "Amplitude-0-0", "LocalBackground-0-0">>,
      <<"Position-0-0", "Position-1-0", "Amplitude-0-0", "ImageNumber-0-0">> }

\* the value of a column that the model does not vary
FixedVal(name) ==
    CASE name \in {"y", "Position-1-0"} -> 12
      [] name \in {"uncertainty", "Position-0-0-uncertainty"} -> 1
      [] name = "Position-1-0-uncertainty" -> 2
      [] name \in {"intensity [photon]", "Amplitude-0-0"} -> 16
      [] name = "LocalBackground-0-0" -> 2
      [] name = "FitResidues-0-0" -> 5
      [] OTHER -> 3

\* one body row under header h: x and the frame vary
Row(h, xv, fv) ==
    [i \in 1..Len(h) |->
        IF h[i] \in {"x", "Position-0-0"} THEN xv
        ELSE IF h[i] \in {"frame", "ImageNumber-0-0"} THEN fv
        ELSE FixedVal(h[i])]

RowsOf(h) == { Row(h, xv, fv) : xv \in XVals, fv \in Frames }

\* the input file with header h and body b
File(fmt, h, b) == [fmt |-> fmt, header |-> h, rows |-> b]

\* ------------------------------------------------------------------ tables
\* a pandas DataFrame: column names, the rows of .values, the two-level index
NoTable == [columns |-> <<>>, rows |-> <<>>, index |-> generateIndex(<<>>)]

Failed(e) == [err |-> e, table |-> NoTable]
Read(t) == [err |-> "none", table |-> t]

\* rows[argsort of column k]: ascending by frame; numpy sorts arrays this
\* short by insertion, which keeps the file order of equal frames
RECURSIVE SortByColumn(_, _)
SortByColumn(rows, k) ==
    IF Len(rows) <= 1 THEN rows
    ELSE LET init == SortByColumn(SubSeq(rows, 1, Len(rows) - 1), k)
             r    == rows[Len(rows)]
             n    == Cardinality({ i \in 1..Len(init) : init[i][k] <= r[k] })
         IN  SubSeq(init, 1, n) \o <<r>> \o SubSeq(init, n + 1, Len(init))

\* data[cols] = data[cols] / p
DivideColumns(rows, cols, p) ==
    [i \in 1..Len(rows) |->
        [j \in 1..Len(rows[i]) |-> IF j \in cols THEN Div(rows[i][j], p) ELSE rows[i][j]]]

\* f.readline().strip().split('\t') of the first line
FirstLineSplit(f) == IF f.fmt = "tab" THEN f.header ELSE <<"# <localizations>">>

\* np.loadtxt squeezes its result: a body of one row comes back 1-d and an
\* empty body as shape (0,), and allData[:,k] then raises IndexError
LoadsAs2d(f) == Len(f.rows) >= 2

readXYTLocalisations(f, pixelSize) ==
    LET header == FirstLineSplit(f) IN
    IF ~(Has(header, "x") /\ Has(header, "y") /\ Has(header, "frame"))
    THEN Failed("AssertionError")
    ELSE IF ~LoadsAs2d(f) THEN Failed("IndexError")
    ELSE LET frameIndex == Index(header, "frame")
             allData    == SortByColumn(f.rows, frameIndex)
         IN  Read([columns |-> header,
                   rows    |-> DivideColumns(allData,
                                   {Index(header, "x"), Index(header, "y")}, pixelSize),
                   index   |-> generateIndex(Column(allData, frameIndex))])

\* The thunderstorm reader, which createMovieInfo.py:143 calls and
\* readLocalisations.py does not define; as the specification describes it:
\* the xyt reader (first line of column names with x, y and frame required,
\* rows sorted by frame, x and y divided by the pixel size), with uncertainty
\* and intensity [photon] passing through as columns.
readThunderstormLocalisations(f, pixelSize) ==
    LET header == FirstLineSplit(f) IN
    IF ~(Has(header, "x") /\ Has(header, "y") /\ Has(header, "frame"))
    THEN Failed("MissingColumn")
    ELSE LET frameIndex == Index(header, "frame")
             allData    == SortByColumn(f.rows, frameIndex)
         IN  Read([columns |-> header,
                   rows    |-> DivideColumns(allData,
                                   {Index(header, "x"), Index(header, "y")}, pixelSize),
                   index   |-> generateIndex(Column(allData, frameIndex))])

\* the columns of the table readRapidStormLocalisations returns
RapidStormColumns ==
    <<"x", "y", "Uncertainty x", "Uncertainty y", "Photon Count", "frame",
      "FitResidue", "SNR">>

\* the index of the child whose identifier is id; 0 stands for None
FieldIndex(f, id) == Index(f.header, id)

\* PSFWidth-0-0 and PSFWidth-1-0 are looked up and defaulted like the other
\* optional fields, but are not among dataIndexes: the table has no such column
readRapidStormLocalisations(f, photonConversion, pixelSize) ==
    IF f.fmt # "xml" THEN Failed("ParseError")
    ELSE
    LET xPosition       == FieldIndex(f, "Position-0-0")
        xUncertainty    == FieldIndex(f, "Position-0-0-uncertainty")
        yPosition       == FieldIndex(f, "Position-1-0")
        yUncertainty    == FieldIndex(f, "Position-1-0-uncertainty")
        amplitude       == FieldIndex(f, "Amplitude-0-0")
        imageNumber     == FieldIndex(f, "ImageNumber-0-0")
        fitResidues     == FieldIndex(f, "FitResidues-0-0")
        localBackground == FieldIndex(f, "LocalBackground-0-0")
    IN
    IF xPosition = 0 \/ yPosition = 0 \/ amplitude = 0 \/ imageNumber = 0
    THEN Failed("AssertionError")
    ELSE IF ~LoadsAs2d(f) THEN Failed("IndexError")
    ELSE IF localBackground = 0 THEN Failed("NameError")
    ELSE
    LET width    == Len(f.header)
        SNRindex == width + 1
        last     == width + 2
        \* SNR and the NaN column appended, then the unit conversions
        withSNR  == [i \in 1..Len(f.rows) |->
                        f.rows[i] \o <<Div(f.rows[i][amplitude], f.rows[i][localBackground])>>
                                  \o <<NaN>>]
        photons  == DivideColumns(withSNR, {amplitude}, photonConversion)
        allData  == DivideColumns(photons, {xPosition, yPosition}, pixelSize)
        xU       == IF xUncertainty = 0 THEN last ELSE xUncertainty
        yU       == IF xUncertainty = 0 THEN last ELSE yUncertainty
        fR       == IF fitResidues = 0 THEN last ELSE fitResidues
        dataIndexes == <<xPosition, yPosition, xU, yU, amplitude, imageNumber, fR, SNRindex>>
    IN
    IF yU = 0 THEN Failed("IndexError")
    ELSE Read([columns |-> RapidStormColumns,
               rows    |-> [i \in 1..Len(allData) |->
                              [j \in 1..Len(dataIndexes) |-> allData[i][dataIndexes[j]]]],
               index   |-> generateIndex(Column(allData, imageNumber))])

\* ----------------------------------------------------------------- convert
\* a plausible slip: each of the two columns falls back on its own
EmitEachAlone(cols, r) ==
    LET indexX == Index(cols, "x")
        indexY == Index(cols, "y")
        indexUncertainty == Index(cols, "uncertainty")
        indexAmplitude   == Index(cols, "intensity [photon]")
        U   == IF indexUncertainty = 0 THEN 0 ELSE r[indexUncertainty]
        Amp == IF indexAmplitude = 0 THEN 1 ELSE r[indexAmplitude]
    IN  <<r[indexX], U, r[indexY], U, Amp, 0>>

\* the tuple convert appends for one row
Emit(cols, r) ==
    LET indexX == Index(cols, "x")
        indexY == Index(cols, "y")
        indexUncertainty == Index(cols, "uncertainty")
        indexAmplitude   == Index(cols, "intensity [photon]")
    IN  IF indexUncertainty = 0 \/ indexAmplitude = 0
        THEN <<r[indexX], 0, r[indexY], 0, 1, 0>>
        ELSE <<r[indexX], r[indexUncertainty], r[indexY], r[indexUncertainty],
               r[indexAmplitude], 0>>

\* a plausible slip: the bucket is replaced, not appended to
SetItem(d, T, item) ==
    [k \in (DOMAIN d) \cup {T} |-> IF k = T THEN <<item>> ELSE d[k]]

\* newData.setdefault(T, list()).append(item)
SetDefaultAppend(d, T, item) ==
    [k \in (DOMAIN d) \cup {T} |->
        IF k = T THEN (IF T \in DOMAIN d THEN d[T] ELSE <<>>) \o <<item>> ELSE d[k]]

\* the dict after the first n rows of the loop
RECURSIVE Bucketed(_, _, _)
Bucketed(cols, rows, n) ==
    IF n = 0 THEN <<>>
    ELSE SetDefaultAppend(Bucketed(cols, rows, n - 1),
                          rows[n][Index(cols, "frame")], Emit(cols, rows[n]))

\* list(pos.columns).index(...) of a required column raises ValueError
convertRaises(t) ==
    ~(Has(t.columns, "x") /\ Has(t.columns, "y") /\ Has(t.columns, "frame"))

convert(t) == Bucketed(t.columns, t.rows, Len(t.rows))

\* ---------------------------------------- createUtrackMatlabLocalisationFile
\* a cell of the object array: the 0.0 np.zeros put there, or an array
ZeroScalar == [kind |-> "scalar", dtype |-> "float64", items |-> <<>>]
Array(items) == [kind |-> "ndarray", dtype |-> "float64", items |-> items]
EmptyFloatArray == Array(<<>>)

MaxOf(S) == CHOOSE m \in S : \A k \in S : k <= m

\* a plausible slip: the + 1 for frame 0 is forgotten
MatrixSizeNoPlusOne(d) == MaxOf(DOMAIN d)

\* np.int(np.max(posList.keys())) + 1, for a non-empty dict
MatrixSize(d) == MaxOf(DOMAIN d) + 1

\* np.array(np.zeros((matrixSize,1)), dtype)
ZeroData(n) ==
    [i \in 0..(n - 1) |-> [xCoord |-> ZeroScalar, yCoord |-> ZeroScalar, amp |-> ZeroScalar]]

\* np.array([ (item[a], item[b]) for item in bucket ])
Pairs(bucket, a, b) == Array([i \in 1..Len(bucket) |-> <<bucket[i][a], bucket[i][b]>>])

\* item[5] of a tuple that is too short raises, and the except exits
Malformed(d) == \E f \in DOMAIN d : \E i \in 1..Len(d[f]) : Len(d[f][i]) < 6

\* a plausible slip: yCoord is built from the x items
SetFramesCopiedX(dat, d) ==
    [i \in DOMAIN dat |->
        IF i \in DOMAIN d
        THEN [xCoord |-> Pairs(d[i], 1, 2), yCoord |-> Pairs(d[i], 1, 2),
              amp |-> Pairs(d[i], 5, 6)]
        ELSE dat[i]]

\* the loop "for frame in posList"
SetFrames(dat, d) ==
    [i \in DOMAIN dat |->
        IF i \in DOMAIN d
        THEN [xCoord |-> Pairs(d[i], 1, 2), yCoord |-> Pairs(d[i], 3, 4),
              amp |-> Pairs(d[i], 5, 6)]
        ELSE dat[i]]

\* a plausible slip: the loop starts at 1
SetRemainingFromOne(dat, d) ==
    [i \in DOMAIN dat |->
        IF i \in DOMAIN d \/ i = 0 THEN dat[i]
        ELSE [xCoord |-> EmptyFloatArray, yCoord |-> EmptyFloatArray,
              amp |-> EmptyFloatArray]]

\* the loop "for index in range(matrixSize)"
SetRemaining(dat, d) ==
    [i \in DOMAIN dat |->
        IF i \in DOMAIN d THEN dat[i]
        ELSE [xCoord |-> EmptyFloatArray, yCoord |-> EmptyFloatArray,
              amp |-> EmptyFloatArray]]

\* ------------------------------------------------------------------- state
VARIABLES
    entry,      \* what is run: the script ("main"), createUtrackMatlabLocalisationFile
                \* called on a dict ("createUtrack"), or generateIndex ("generateIndex")
    pc,         \* the position in the code
    args,       \* the parsed command line
    file,       \* the input file on disk
    output,     \* the output path
    pixelSize,  \* the pixel size the script settled on
    pos,        \* the table the reader returned
    posList,    \* the dict of frame -> list of tuples
    data,       \* the movieInfo array under construction
    outMat,     \* what createUtrackMatlabLocalisationFile returned
    saved,      \* what scipy.io.savemat wrote
    err,        \* how the run ended, if not normally
    frames,     \* generateIndex: the frame column
    gen,        \* generateIndex: the indexGenerator
    level2      \* generateIndex: the counters emitted so far

vars == <<entry, pc, args, file, output, pixelSize, pos, posList, data, outMat,
          saved, err, frames, gen, level2>>

\* a path: a name and what is appended to it
Path(name, suffix) == [name |-> name, suffix |-> suffix]
NoPath == Path("", "")
InputName == "in.txt"
OutputName == "out.mat"

\* '.'.join(name.split('.')[:-1]), of the names in use
Stem(name) == IF name = "in.txt" THEN "in" ELSE IF name = "out.mat" THEN "out" ELSE ""

\* float(args.pixelSize), of the values in use
ToFloat(str) == IF str = "2" THEN 2 ELSE 1

NoMat == [movieInfo |-> <<>>]
NotSaved == [written |-> FALSE, path |-> NoPath, mat |-> NoMat]

Args(f, o, t, p) == [file |-> f, output |-> o, type |-> t, pixelSize |-> p]

\* ----------------------------------------------------------------- inputs
SampleBody(h) == <<Row(h, 8, 1), Row(h, 4, 0)>>
SampleFiles ==
    { [fmt |-> "tab", header |-> <<"x", "y", "frame">>,
       rows |-> SampleBody(<<"x", "y", "frame">>)],
      [fmt |-> "xml",
       header |-> <<"Position-0-0", "Position-1-0", "Amplitude-0-0", "ImageNumber-0-0",
                    "LocalBackground-0-0">>,
       rows |-> SampleBody(<<"Position-0-0", "Position-1-0", "Amplitude-0-0",
                             "ImageNumber-0-0", "LocalBackground-0-0">>)] }

PixelArgs == {None, "1", "2"}

TypeArgs == {None, "0", "xyt", "1", "rapidSTORM", "2", "tunderstorm", "thunderstorm", "3"}

\* the dicts createUtrackMatlabLocalisationFile is called on directly
Tuple1 == <<4, 1, 12, 2, 16, 0>>
Tuple2 == <<8, 0, 12, 0, 1, 0>>
ShortTuple == <<4, 1, 12>>
BucketLists == { <<>>, <<Tuple1>>, <<Tuple1, Tuple2>>, <<Tuple2, Tuple1>>, <<ShortTuple>> }

\* -------------------------------------------------------------------- Init
Idle ==
    /\ output = NoPath
    /\ pixelSize = 1
    /\ pos = NoTable
    /\ data = <<>>
    /\ outMat = NoMat
    /\ saved = NotSaved
    /\ err = "none"
    /\ gen = indexGeneratorInit
    /\ level2 = <<>>

\* the script run with selector t on files of format fmt with a header of hs
\* and every body of up to MaxRows rows
InitRuns(t, fmt, hs) ==
    /\ entry = "main"
    /\ pc = "args"
    /\ \E p \in {None, "2"} : args = Args(InputName, None, t, p)
    /\ \E h \in hs : \E n \in 0..MaxRows : \E b \in [1..n -> RowsOf(h)] :
           file = File(fmt, h, b)
    /\ posList = <<>>
    /\ frames = <<>>
    /\ Idle

\* the script run with every kind of command line on the sample files
InitOtherRuns ==
    /\ entry = "main"
    /\ pc = "args"
    /\ \E f \in {None, InputName} : \E o \in {None, OutputName} :
           \E t \in TypeArgs : \E p \in PixelArgs : args = Args(f, o, t, p)
    /\ file \in SampleFiles
    /\ posList = <<>>
    /\ frames = <<>>
    /\ Idle

InitMain ==
    \/ InitRuns(None, "tab", XYTHeaders)
    \/ InitRuns("2", "tab", ThunderstormHeaders)
    \/ InitRuns("1", "xml", RapidStormHeaders)
    \/ InitOtherRuns

InitCreateUtrack ==
    /\ entry = "createUtrack"
    /\ pc = "createUtrack"
    /\ args = Args(None, None, None, None)
    /\ file = File("tab", <<>>, <<>>)
    /\ \E K \in SUBSET Frames : posList \in [K -> BucketLists]
    /\ frames = <<>>
    /\ Idle

InitGenerateIndex ==
    /\ entry = "generateIndex"
    /\ pc = "generateIndex"
    /\ args = Args(None, None, None, None)
    /\ file = File("tab", <<>>, <<>>)
    /\ posList = <<>>
    /\ \E n \in 0..MaxRows : frames \in [1..n -> Frames]
    /\ Idle

Init == InitMain \/ InitCreateUtrack \/ InitGenerateIndex

\* ----------------------------------------------------------------- actions
Rest == <<args, file, frames, gen, level2, entry>>

\* createMovieInfo.py:121-123: no input file given
MissingInputFile ==
    /\ pc = "args"
    /\ args.file = None
    /\ pc' = "exit"
    /\ err' = "SystemExit"
    /\ UNCHANGED <<output, pixelSize, pos, posList, data, outMat, saved>>
    /\ UNCHANGED Rest

\* createMovieInfo.py:124-136: the output path and the pixel size
ParseArgs ==
    /\ pc = "args"
    /\ args.file # None
    /\ output' = IF args.output = None
                 THEN Path(Stem(args.file), "_movieInfo.mat")
                 ELSE Path(args.output, "")
    /\ pixelSize' = IF args.pixelSize = "1" \/ args.pixelSize = None
                    THEN 1 ELSE ToFloat(args.pixelSize)
    /\ pc' = "read"
    /\ UNCHANGED <<pos, posList, data, outMat, saved, err>>
    /\ UNCHANGED Rest

\* the reader returned r: an uncaught exception ends the run
AfterRead(r) ==
    /\ IF r.err = "none"
       THEN pos' = r.table /\ pc' = "convert" /\ err' = err
       ELSE pos' = pos /\ pc' = "crash" /\ err' = r.err
    /\ UNCHANGED <<output, pixelSize, posList, data, outMat, saved>>
    /\ UNCHANGED Rest

\* createMovieInfo.py:138-139
ReadXYT ==
    /\ pc = "read"
    /\ args.type \in {"0", "xyt", None}
    /\ AfterRead(readXYTLocalisations(file, pixelSize))

\* createMovieInfo.py:140-141: the pixel size is the second positional
\* argument, which is photonConversion; the reader's pixelSize keeps its default
ReadRapidStorm ==
    /\ pc = "read"
    /\ args.type \in {"1", "rapidSTORM"}
    /\ AfterRead(readRapidStormLocalisations(file, pixelSize, 1))

\* createMovieInfo.py:142-143
ReadThunderstorm ==
    /\ pc = "read"
    /\ args.type \in {"2", "tunderstorm"}
    /\ AfterRead(readThunderstormLocalisations(file, pixelSize))

\* a plausible slip: a selector that is not understood is read as xyt
TypeNotUnderstoodReadsXYT ==
    /\ pc = "read"
    /\ args.type \notin {"0", "xyt", None, "1", "rapidSTORM", "2", "tunderstorm"}
    /\ AfterRead(readXYTLocalisations(file, pixelSize))

\* createMovieInfo.py:144-146
TypeNotUnderstood ==
    /\ pc = "read"
    /\ args.type \notin {"0", "xyt", None, "1", "rapidSTORM", "2", "tunderstorm"}
    /\ pc' = "exit"
    /\ err' = "SystemExit"
    /\ UNCHANGED <<output, pixelSize, pos, posList, data, outMat, saved>>
    /\ UNCHANGED Rest

\* createMovieInfo.py:151
Convert ==
    /\ pc = "convert"
    /\ IF convertRaises(pos)
       THEN posList' = posList /\ pc' = "crash" /\ err' = "ValueError"
       ELSE posList' = convert(pos) /\ pc' = "createUtrack" /\ err' = err
    /\ UNCHANGED <<output, pixelSize, pos, data, outMat, saved>>
    /\ UNCHANGED Rest

\* createMovieInfo.py:37: np.max of an empty list of keys raises ValueError,
\* which nothing catches
MaxOfNoKeys ==
    /\ pc = "createUtrack"
    /\ DOMAIN posList = {}
    /\ pc' = "crash"
    /\ err' = "ValueError"
    /\ UNCHANGED <<output, pixelSize, pos, posList, data, outMat, saved>>
    /\ UNCHANGED Rest

\* createMovieInfo.py:37-40
Allocate ==
    /\ pc = "createUtrack"
    /\ DOMAIN posList # {}
    /\ data' = ZeroData(MatrixSize(posList))
    /\ pc' = "setFrames"
    /\ UNCHANGED <<output, pixelSize, pos, posList, outMat, saved, err>>
    /\ UNCHANGED Rest

\* createMovieInfo.py:48-50
ConversionError ==
    /\ pc = "setFrames"
    /\ Malformed(posList)
    /\ pc' = "exit"
    /\ err' = "SystemExit1"
    /\ UNCHANGED <<output, pixelSize, pos, posList, data, outMat, saved>>
    /\ UNCHANGED Rest

\* createMovieInfo.py:43-54
FillFrames ==
    /\ pc = "setFrames"
    /\ ~Malformed(posList)
    /\ data' = SetFrames(data, posList)
    /\ pc' = "setRemaining"
    /\ UNCHANGED <<output, pixelSize, pos, posList, outMat, saved, err>>
    /\ UNCHANGED Rest

\* createMovieInfo.py:58-65
FillRemaining ==
    /\ pc = "setRemaining"
    /\ data' = SetRemaining(data, posList)
    /\ pc' = "return"
    /\ UNCHANGED <<output, pixelSize, pos, posList, outMat, saved, err>>
    /\ UNCHANGED Rest

\* createMovieInfo.py:67-69
Return ==
    /\ pc = "return"
    /\ outMat' = [movieInfo |-> data]
    /\ pc' = IF entry = "main" THEN "save" ELSE "returned"
    /\ UNCHANGED <<output, pixelSize, pos, posList, data, saved, err>>
    /\ UNCHANGED Rest

\* createMovieInfo.py:157
Save ==
    /\ pc = "save"
    /\ saved' = [written |-> TRUE, path |-> output, mat |-> outMat]
    /\ pc' = "done"
    /\ UNCHANGED <<output, pixelSize, pos, posList, data, outMat, err>>
    /\ UNCHANGED Rest

\* readLocalisations.py:36: one call idx(frame) of the list comprehension
IndexNext ==
    /\ pc = "generateIndex"
    /\ Len(level2) < Len(frames)
    /\ gen' = indexCall(gen, frames[Len(level2) + 1])
    /\ level2' = Append(level2, gen'.idx)
    /\ UNCHANGED <<pc, output, pixelSize, pos, posList, data, outMat, saved, err>>
    /\ UNCHANGED <<args, file, frames, entry>>

\* readLocalisations.py:37-38
IndexReturn ==
    /\ pc = "generateIndex"
    /\ Len(level2) = Len(frames)
    /\ pc' = "returned"
    /\ UNCHANGED <<output, pixelSize, pos, posList, data, outMat, saved, err>>
    /\ UNCHANGED Rest

Next ==
    \/ MissingInputFile
    \/ ParseArgs
    \/ ReadXYT
    \/ ReadRapidStorm
    \/ ReadThunderstorm
    \/ TypeNotUnderstood
    \/ Convert
    \/ MaxOfNoKeys
    \/ Allocate
    \/ ConversionError
    \/ FillFrames
    \/ FillRemaining
    \/ Return
    \/ Save
    \/ IndexNext
    \/ IndexReturn

Spec == Init /\ [][Next]_vars

\* ================================================================== claims
\* createUtrackMatlabLocalisationFile has returned its array
Returned == entry \in {"main", "createUtrack"} /\ pc \in {"save", "returned", "done"}

\* convert has returned the dict of the table pos
Converted ==
    /\ entry = "main"
    /\ pc \in {"createUtrack", "setFrames", "setRemaining", "return", "save", "done"}

\* the reader has returned the table pos
TableReturned == entry = "main" /\ pc = "convert"

\* the rows of a table whose frame is f, in row order
RowsOfFrame(t, f) ==
    LET T == Index(t.columns, "frame") IN SelectSeq(t.rows, LAMBDA r : r[T] = f)

RECURSIVE TotalLength(_)
TotalLength(d) ==
    IF DOMAIN d = {} THEN 0
    ELSE LET k == CHOOSE k \in DOMAIN d : TRUE
         IN  Len(d[k]) + TotalLength([j \in (DOMAIN d) \ {k} |-> d[j]])

\* C1: for a non-empty dict with frame keys >= 0 the returned movieInfo
\* array has exactly maxFrame + 1 slots, one for every frame of 0..maxFrame.
C1_SlotPerFrame ==
    Returned =>
        /\ DOMAIN posList # {}
        /\ DOMAIN outMat.movieInfo = 0..MaxOf(DOMAIN posList)
        /\ Cardinality(DOMAIN outMat.movieInfo) = MaxOf(DOMAIN posList) + 1

C1_Witness ==
    /\ Returned
    /\ MaxOf(DOMAIN posList) = MaxFrame
    /\ Cardinality(DOMAIN posList) = 1
    /\ Cardinality(DOMAIN outMat.movieInfo) = MaxFrame + 1

\* C2: in the returned array every slot of a frame that is no key of the
\* dict holds three empty float arrays, and no slot at all still holds the
\* zero scalar it was allocated with.
C2_EmptySlots ==
    Returned =>
        \A i \in DOMAIN outMat.movieInfo :
            LET slot == outMat.movieInfo[i] IN
            /\ i \notin DOMAIN posList =>
                   /\ slot.xCoord = EmptyFloatArray
                   /\ slot.yCoord = EmptyFloatArray
                   /\ slot.amp = EmptyFloatArray
            /\ slot.xCoord.kind = "ndarray" /\ slot.xCoord.dtype = "float64"
            /\ slot.yCoord.kind = "ndarray" /\ slot.yCoord.dtype = "float64"
            /\ slot.amp.kind = "ndarray" /\ slot.amp.dtype = "float64"

C2_Witness ==
    /\ Returned
    /\ 0 \notin DOMAIN posList
    /\ 1 \notin DOMAIN posList
    /\ outMat.movieInfo[0].xCoord.items = <<>>
    /\ outMat.movieInfo[1].amp.items = <<>>

\* C3: the bucket of frame f holds one tuple per table row of frame f, in
\* table row order; the buckets together hold as many tuples as the table
\* has rows, and only frames that have a row have a bucket.
C3_Bucketing ==
    Converted =>
        /\ DOMAIN posList = { pos.rows[i][Index(pos.columns, "frame")] : i \in 1..Len(pos.rows) }
        /\ \A f \in DOMAIN posList :
               LET rs == RowsOfFrame(pos, f) IN
               /\ Len(posList[f]) = Len(rs)
               /\ \A i \in 1..Len(rs) : posList[f][i] = Emit(pos.columns, rs[i])
        /\ TotalLength(posList) = Len(pos.rows)

C3_Witness ==
    /\ Converted
    /\ Len(pos.rows) = MaxRows
    /\ Cardinality(DOMAIN posList) = 2
    /\ \E f \in DOMAIN posList : Len(posList[f]) = 2 /\ posList[f][1] # posList[f][2]

\* C4: the slot of every frame f that is a key of the dict has xCoord the
\* pairs (x, xUncertainty), yCoord the pairs (y, yUncertainty) and amp the
\* pairs (amplitude, placeholder) of bucket f, one per tuple, in bucket order.
C4_SlotOfBucket ==
    Returned =>
        \A f \in DOMAIN posList :
            LET slot == outMat.movieInfo[f]
                b    == posList[f]
            IN  /\ Len(slot.xCoord.items) = Len(b)
                /\ Len(slot.yCoord.items) = Len(b)
                /\ Len(slot.amp.items) = Len(b)
                /\ \A i \in 1..Len(b) :
                       /\ slot.xCoord.items[i] = <<b[i][1], b[i][2]>>
                       /\ slot.yCoord.items[i] = <<b[i][3], b[i][4]>>
                       /\ slot.amp.items[i] = <<b[i][5], b[i][6]>>

C4_Witness ==
    /\ Returned
    /\ \E f \in DOMAIN posList :
           /\ Len(posList[f]) = 2
           /\ posList[f][1] # posList[f][2]
           /\ outMat.movieInfo[f].xCoord.items[2] = <<posList[f][2][1], posList[f][2][2]>>
           /\ outMat.movieInfo[f].yCoord.items[1] # outMat.movieInfo[f].xCoord.items[1]

\* C5: called on an empty dict, the builder ends with the explicit error
\* EmptyInput, not with the exception of a maximum over no keys, and neither
\* returns nor writes an array.
C5_EmptyInputError ==
    [][(pc = "createUtrack" /\ DOMAIN posList = {}) =>
           (err' = "EmptyInput" /\ outMat' = NoMat /\ saved' = NotSaved)]_vars

\* C6: the output file is written only after the reader, convert and the
\* builder have all completed; a run that fails at any stage (no input path,
\* selector not understood, a reader's assertion, no rows, a tuple that does
\* not convert) ends with nothing written.
C6_WrittenOnlyOnSuccess ==
    /\ saved.written =>
           /\ entry = "main" /\ pc = "done" /\ err = "none"
           /\ args.file # None
           /\ args.type \in {"0", "xyt", None, "1", "rapidSTORM", "2", "tunderstorm"}
           /\ pos # NoTable
           /\ posList = convert(pos) /\ DOMAIN posList # {}
           /\ DOMAIN data = 0..MaxOf(DOMAIN posList)
           /\ outMat = [movieInfo |-> data]
           /\ saved = [written |-> TRUE, path |-> output, mat |-> outMat]
    /\ (pc \in {"exit", "crash"} \/ err # "none") => saved = NotSaved

C6_Witness ==
    /\ entry = "main"
    /\ args.type = "1"
    /\ ~Has(file.header, "ImageNumber-0-0")
    /\ pc = "crash"
    /\ err = "AssertionError"
    /\ saved = NotSaved

\* C7: the table the script gets for a rapidSTORM input has x and y equal to
\* the file's x and y divided by the pixel size, and the amplitude equal to
\* the file's amplitude divided by the photon conversion factor, which is 1
\* as the script gives none.
C7_RapidStormUnits ==
    (TableReturned /\ args.type \in {"1", "rapidSTORM"}) =>
        \A i \in 1..Len(pos.rows) :
            /\ pos.rows[i][Index(pos.columns, "x")] =
                   Div(file.rows[i][FieldIndex(file, "Position-0-0")], pixelSize)
            /\ pos.rows[i][Index(pos.columns, "y")] =
                   Div(file.rows[i][FieldIndex(file, "Position-1-0")], pixelSize)
            /\ pos.rows[i][Index(pos.columns, "Photon Count")] =
                   Div(file.rows[i][FieldIndex(file, "Amplitude-0-0")], 1)

\* C8: an optional rapidSTORM field the header does not declare (the
\* uncertainty pair, fit residues) is a column of zeros in the table returned.
C8_AbsentFieldIsZero ==
    (TableReturned /\ args.type \in {"1", "rapidSTORM"}) =>
        \A i \in 1..Len(pos.rows) :
            /\ FieldIndex(file, "Position-0-0-uncertainty") = 0 =>
                   /\ pos.rows[i][Index(pos.columns, "Uncertainty x")] = 0
                   /\ pos.rows[i][Index(pos.columns, "Uncertainty y")] = 0
            /\ FieldIndex(file, "FitResidues-0-0") = 0 =>
                   pos.rows[i][Index(pos.columns, "FitResidue")] = 0

\* a run of the script with format selector 2 on a file with x, y and frame
ThunderstormRun ==
    /\ entry = "main"
    /\ args.file # None
    /\ args.type = "2"
    /\ file.fmt = "tab"
    /\ Has(file.header, "x") /\ Has(file.header, "y") /\ Has(file.header, "frame")

Sorted(fs) == \A i \in 1..Len(fs) : \A j \in 1..Len(fs) : i <= j => fs[i] <= fs[j]

\* C10: fed a non-decreasing frame column (its first frame 0 or not), a
\* fresh indexGenerator emits for each element the number of earlier
\* elements of the same frame, so the (frame, counter) pairs of generateIndex
\* are pairwise distinct.
C10_IndexCounts ==
    (entry = "generateIndex" /\ Sorted(frames)) =>
        /\ \A i \in 1..Len(level2) :
               level2[i] = Cardinality({ j \in 1..(i - 1) : frames[j] = frames[i] })
        /\ \A i \in 1..Len(level2) : \A j \in 1..Len(level2) :
               i # j => <<FrameLabel(frames[i]), level2[i]>> # <<FrameLabel(frames[j]), level2[j]>>
        /\ pc = "returned" =>
               /\ Len(level2) = Len(frames)
               /\ level2 = generateIndex(frames).level2

C10_Witness ==
    /\ entry = "generateIndex"
    /\ pc = "returned"
    /\ frames = <<1, 1, 2>>
    /\ level2 = <<0, 1, 0>>

====
